---- MODULE Spec2Model ----
(***************************************************************************)
(* Model of the rebuild orchestrator of reproducible_builds:               *)
(*   repacker.repack / repacker.repack_all / cli.repack                    *)
(* together with the helpers they call (PackageType.detect,                *)
(* Package.find_sdist, Package.as_source, get_environment_version,         *)
(* run_in_docker, run_diffoscope, Package.normalize).                      *)
(*                                                                         *)
(* External programs (docker, python -m build, diffoscope) and the         *)
(* packaging library are modelled by the outcomes they can deliver to the  *)
(* Python code: a return code, the files left behind, or an exception.     *)
(***************************************************************************)
EXTENDS Integers, Sequences, FiniteSets, TLC

\* Number of artifacts of the dataset (Package.enumerate yields them in order).
NumArtifacts == 2

Art == 1..NumArtifacts

(***************************************************************************)
(* File names                                                              *)
(***************************************************************************)
\* A file name, as far as the code looks at it: its suffix, whether
\* packaging.utils.parse_wheel_filename accepts it, and the compatibility
\* tags <<interpreter, platform>> it carries.
SdistName == [ext |-> "tar.gz", wellformed |-> TRUE, tags |-> {}]
WheelAny == [ext |-> "whl", wellformed |-> TRUE, tags |-> {<<"py3", "any">>}]
WheelWin == [ext |-> "whl", wellformed |-> TRUE, tags |-> {<<"cp39", "win_amd64">>}]
WheelBad == [ext |-> "whl", wellformed |-> FALSE, tags |-> {}]

FNames == {SdistName, WheelAny, WheelWin, WheelBad}

\* PackageType.detect
detect(fname) ==
  IF fname.ext = "whl" THEN "wheel"
  ELSE IF fname.ext = "tar.gz" THEN "sdist"
  ELSE "none"

\* docker_tags: the supported build environments
docker_tags == {<<3, 7>>, <<3, 8>>, <<3, 9>>, <<3, 10>>, <<3, 11>>}

\* Python's None, the value of a variable not assigned yet, and the marker of
\* a call that raises instead of returning
None == <<>>
Unset == <<0, 0>>
Raised == <<0>>

\* One iteration of the loop of get_environment_version: the value returned
\* for tag t, or None when the loop continues with the next tag.
TagEnv(t) ==
  IF t[2] \notin {"any", "linux_x86_64"} THEN None
  ELSE IF t[1] \in {"py3", "cp3"} THEN <<3, 10>>
  ELSE IF t[1] \in {"py37", "cp37"} THEN <<3, 7>>
  ELSE IF t[1] \in {"py38", "cp38"} THEN <<3, 8>>
  ELSE IF t[1] \in {"py39", "cp39"} THEN <<3, 9>>
  ELSE IF t[1] \in {"py310", "cp310"} THEN <<3, 10>>
  ELSE IF t[1] \in {"py311", "cp311"} THEN <<3, 11>>
  ELSE None

\* get_environment_version: the set of results the call can deliver.  Raised
\* stands for InvalidWheelFilename raised by parse_wheel_filename.  The tags
\* are a frozenset, so the first matching tag is any matching tag.
get_environment_version(fname) ==
  IF fname.ext = "tar.gz" THEN {<<3, 11>>}
  ELSE IF ~fname.wellformed THEN {Raised}
  ELSE LET hits == {TagEnv(t) : t \in fname.tags} \ {None}
       IN IF hits = {} THEN {None} ELSE hits

(***************************************************************************)
(* Artifacts and the file system                                           *)
(***************************************************************************)
\* What the file system holds for an artifact besides the artifact itself:
\* sibling: some *.tar.gz entry exists in the artifact's parent directory;
\* marker:  the source archive used for it unpacks to <dir>/PKG-INFO.
Kind(f, s, m) == [fname |-> f, sibling |-> s, marker |-> m]

\* The kinds of artifact a dataset is made of.  A source distribution is its
\* own *.tar.gz sibling.
Catalogue ==
  << Kind(SdistName, TRUE, TRUE),
     Kind(WheelBad, TRUE, TRUE),
     Kind(WheelAny, TRUE, TRUE),
     Kind(WheelWin, TRUE, TRUE),
     Kind(SdistName, TRUE, FALSE),
     Kind(WheelAny, FALSE, FALSE),
     Kind(WheelBad, FALSE, FALSE),
     Kind(WheelAny, TRUE, FALSE),
     Kind(WheelWin, FALSE, FALSE) >>

\* A dataset: NumArtifacts consecutive entries of the catalogue (cyclically),
\* in the order Package.enumerate yields them.
Dataset(shift) ==
  [a \in Art |-> Catalogue[((a - 1 + shift) % Len(Catalogue)) + 1]]

\* Names of the files of a repack directory
ExpectedFile == "pkg"
OtherOutput == "other"
LogFiles == {"repack.stdout.txt", "repack.stderr.txt"}
RawDiffLogs == {"diff.stdout.txt", "diff.stderr.txt"}
RawDiffReport == "diff.json"
NormDiffLogs == {"diff_normalized.stdout.txt", "diff_normalized.stderr.txt"}
NormDiffReport == "diff_normalized.json"
ChecksumFile == "checksums.json"
VerdictFile == "reproducible_results.json"
AuraReport == "aura_diff.json"
AuraNormReport == "aura_diff_normalized.json"

VARIABLES
  pkgs,        \* the dataset: the kind of every artifact
  dirExists,   \* [Art -> BOOLEAN]: the artifact's repack directory exists
  files,       \* [Art -> set of file names]: files of the repack directory
  mode,        \* who called repack: "none", "api", "cli", "batch"
  pc,          \* position of the current run of repack
  cur,         \* artifact of the current run (0: none)
  supplied,    \* source_dir was passed to repack
  srcFrom,     \* where the source tree comes from
  docker_env,  \* repack's docker_env
  existing_files, \* repack's snapshot
  returncode,  \* out_p.returncode (-1: no build finished)
  new_files,   \* repack's new_files
  calls,       \* external tool invocations of the current run, in order
  outcome,     \* how the current run ended
  stopped,     \* the place where the current run ended
  tmp,         \* directories of the run that exist: "src", "norm", "source_dir"
  existedAtCall, \* the expected file existed when repack was called
  dirAtCall,   \* the repack directory existed when repack was called
  filesAtCall, \* files of the repack directory when repack was called
  idx,         \* repack_all: position in the enumeration
  batch,       \* repack_all: "idle", "running", "finished", "aborted"
  visited,     \* repack_all: artifacts whose loop body was entered
  seen,        \* <<place, value>> of the runs of repack that ended by return
  ag,          \* combine_results: its inputs, its position, the verdict file
  nz,          \* the normalizers: input archives and normalized outputs
  rd,          \* repack_dir: artifact paths and their repack directories
  ev           \* get_environment_version: a file name and the results for it

vars == <<pkgs, dirExists, files, mode, pc, cur, supplied, srcFrom, docker_env,
          existing_files, returncode, new_files, calls, outcome, stopped, tmp,
          existedAtCall, dirAtCall, filesAtCall, idx, batch, visited,
          seen, ag, nz, rd, ev>>

\* the state of the orchestrator (repack, repack_all and their callers)
repackVars == <<pkgs, dirExists, files, mode, pc, cur, supplied, srcFrom,
                docker_env, existing_files, returncode, new_files, calls,
                outcome, stopped, tmp, existedAtCall, dirAtCall, filesAtCall,
                idx, batch, visited, seen>>

\* what no step of the orchestrator changes: the dataset, and the state of the
\* functions that are not called from repack
static == <<pkgs, ag, nz, rd, ev>>

\* a function that is not being exercised
Off == [pc |-> "off"]

runVars == <<pc, cur, supplied, srcFrom, docker_env, existing_files, returncode,
             new_files, calls, outcome, stopped, tmp, existedAtCall, dirAtCall,
             filesAtCall>>

fsVars == <<dirExists, files>>

batchVars == <<idx, batch, visited>>

\* what a step of repack that goes on to the next step leaves alone
goOn == <<outcome, stopped, tmp, seen>>

\* no run of repack or repack_all has started
RepackIdle ==
  /\ dirExists = [a \in Art |-> FALSE]
  /\ files = [a \in Art |-> {}]
  /\ mode = "none"
  /\ pc = "idle"
  /\ cur = 0
  /\ supplied = FALSE
  /\ srcFrom = "none"
  /\ docker_env = Unset
  /\ existing_files = {}
  /\ returncode = -1
  /\ new_files = {}
  /\ calls = <<>>
  /\ outcome = "none"
  /\ stopped = "none"
  /\ tmp = {}
  /\ existedAtCall = FALSE
  /\ dirAtCall = FALSE
  /\ filesAtCall = {}
  /\ idx = 0
  /\ batch = "idle"
  /\ visited = {}
  /\ seen = {}

Init ==
  /\ \E shift \in 0..(Len(Catalogue) - 1) : pkgs = Dataset(shift)
  /\ RepackIdle
  /\ ev = Off
  /\ ag = Off
  /\ nz = Off
  /\ rd = Off

\* the caller's source_dir, and the two temporary directories of repack:
\* prefix "reproducible_src_dir_" and prefix "normalized_reproducible_packages_"
SourceDir == "source_dir"
TmpSrc == "src"
TmpNorm == "norm"

\* Package.repack_dir / pkg.path.name exists
RebuiltExists(a) == ExpectedFile \in files[a]

\* Entry into repack(package, source_dir): the state of a fresh call
Enter(a, withSource, m) ==
  /\ mode' = m
  /\ pc' = "locate"
  /\ cur' = a
  /\ supplied' = withSource
  /\ srcFrom' = "none"
  /\ docker_env' = Unset
  /\ existing_files' = {}
  /\ returncode' = -1
  /\ new_files' = {}
  /\ calls' = <<>>
  /\ outcome' = "none"
  /\ stopped' = "none"
  /\ tmp' = IF withSource THEN {SourceDir} ELSE {}

\* No run of repack is in progress: the locals of the last run are gone
Forget ==
  /\ pc' = "idle"
  /\ cur' = 0
  /\ supplied' = FALSE
  /\ srcFrom' = "none"
  /\ docker_env' = Unset
  /\ existing_files' = {}
  /\ returncode' = -1
  /\ new_files' = {}
  /\ calls' = <<>>
  /\ outcome' = "none"
  /\ stopped' = "none"
  /\ tmp' = {}
  /\ existedAtCall' = FALSE
  /\ dirAtCall' = FALSE
  /\ filesAtCall' = {}

\* Leave with the with-blocks left without any clean-up
Leave_KeepTemporaries(value, where) ==
  /\ pc' = "done"
  /\ outcome' = value
  /\ stopped' = where
  /\ tmp' = tmp
  /\ seen' = IF value \in {"True", "False"}
             THEN seen \cup {<<where, value>>}
             ELSE seen

\* repack returns `value` or raises `value`: every with-block is left. The
\* exit of a tempfile.TemporaryDirectory removes its directory, the exit of
\* nullcontext(source_dir) removes nothing.
Leave(value, where) ==
  /\ pc' = "done"
  /\ outcome' = value
  /\ stopped' = where
  /\ tmp' = tmp \cap {SourceDir}
  /\ seen' = IF value \in {"True", "False"}
             THEN seen \cup {<<where, value>>}
             ELSE seen

(***************************************************************************)
(* Entry points                                                            *)
(***************************************************************************)
\* repacker.repack(package, source_dir) called through the Python API
CallRepack(a, withSource) ==
  /\ mode = "none"
  /\ pc = "idle"
  /\ Enter(a, withSource, "api")
  /\ existedAtCall' = RebuiltExists(a)
  /\ dirAtCall' = dirExists[a]
  /\ filesAtCall' = files[a]
  /\ UNCHANGED <<static, fsVars, batchVars, seen>>

\* cli.repack: an existing repack directory is removed (after the user's
\* confirmation; a refusal aborts the command), then repacker.repack(pkg)
CliRepack(a) ==
  /\ mode = "none"
  /\ pc = "idle"
  /\ dirExists' = [dirExists EXCEPT ![a] = FALSE]
  /\ files' = [files EXCEPT ![a] = {}]
  /\ Enter(a, FALSE, "cli")
  /\ existedAtCall' = FALSE
  /\ dirAtCall' = FALSE
  /\ filesAtCall' = {}
  /\ UNCHANGED <<static, batchVars, seen>>

\* the caller of repack gets the result (or the exception)
Return ==
  /\ mode \in {"api", "cli"}
  /\ pc = "done"
  /\ mode' = "none"
  /\ Forget
  /\ UNCHANGED <<static, fsVars, batchVars, seen>>

(***************************************************************************)
(* repack, step by step                                                    *)
(***************************************************************************)
\* Package.as_source entered for a source archive: the temporary directory is
\* created and the archive unpacked; the generator yields only if a
\* */PKG-INFO is found, otherwise contextmanager raises RuntimeError and the
\* temporary directory is gone again.
as_source(a, from) ==
  IF pkgs[a].marker
  THEN /\ srcFrom' = from
       /\ tmp' = {TmpSrc}
       /\ pc' = "selectenv"
       /\ UNCHANGED <<outcome, stopped, seen>>
  ELSE /\ Leave("RuntimeError", "locate")
       /\ UNCHANGED srcFrom

\* Package.find_sdist: the first *.tar.gz entry of the parent directory
find_sdist(a) == pkgs[a].sibling

\* LocateSource with the wheel branch falling back to the wheel itself when
\* no sibling source distribution is found
LocateSource_WheelFromItself ==
  /\ pc = "locate"
  /\ IF supplied
     THEN /\ srcFrom' = "supplied"
          /\ pc' = "selectenv"
          /\ UNCHANGED goOn
     ELSE /\ srcFrom' = IF detect(pkgs[cur].fname) = "wheel" /\ find_sdist(cur)
                        THEN "sibling" ELSE "self"
          /\ tmp' = {TmpSrc}
          /\ pc' = "selectenv"
          /\ UNCHANGED <<outcome, stopped, seen>>
  /\ UNCHANGED <<static, fsVars, batchVars, mode, cur, supplied, docker_env,
                 existing_files, returncode, new_files, calls, existedAtCall,
                 dirAtCall, filesAtCall>>

\* repack, lines 127-143: choose and enter the source context manager
LocateSource ==
  /\ pc = "locate"
  /\ IF supplied
     THEN /\ srcFrom' = "supplied"
          /\ pc' = "selectenv"
          /\ UNCHANGED goOn
     ELSE IF detect(pkgs[cur].fname) = "wheel"
     THEN IF ~find_sdist(cur)
          THEN /\ Leave("FileNotFoundError", "locate")
               /\ UNCHANGED srcFrom
          ELSE as_source(cur, "sibling")
     ELSE as_source(cur, "self")
  /\ UNCHANGED <<static, fsVars, batchVars, mode, cur, supplied, docker_env,
                 existing_files, returncode, new_files, calls, existedAtCall,
                 dirAtCall, filesAtCall>>

\* repack, lines 144-146
SelectEnv ==
  /\ pc = "selectenv"
  /\ \E e \in get_environment_version(pkgs[cur].fname) :
       IF e = Raised
       THEN /\ Leave("InvalidWheelFilename", "selectenv")
            /\ UNCHANGED docker_env
       ELSE /\ docker_env' = e
            /\ pc' = "prepare"
            /\ UNCHANGED goOn
  /\ UNCHANGED <<static, fsVars, batchVars, mode, cur, supplied, srcFrom,
                 existing_files, returncode, new_files, calls, existedAtCall,
                 dirAtCall, filesAtCall>>

\* Prepare without the already-rebuilt test
Prepare_NoShortCircuit ==
  /\ pc = "prepare"
  /\ dirExists' = [dirExists EXCEPT ![cur] = TRUE]
  /\ existing_files' = files[cur]
  /\ pc' = "rebuild"
  /\ UNCHANGED goOn
  /\ UNCHANGED <<static, files, batchVars, mode, cur, supplied, srcFrom,
                 docker_env, returncode, new_files, calls, existedAtCall,
                 dirAtCall, filesAtCall>>

\* repack, lines 148-156: mkdir, the already-rebuilt test, the snapshot
Prepare ==
  /\ pc = "prepare"
  /\ dirExists' = [dirExists EXCEPT ![cur] = TRUE]
  /\ IF RebuiltExists(cur)
     THEN /\ Leave("False", "already")
          /\ UNCHANGED existing_files
     ELSE /\ existing_files' = files[cur]
          /\ pc' = "rebuild"
          /\ UNCHANGED goOn
  /\ UNCHANGED <<static, files, batchVars, mode, cur, supplied, srcFrom,
                 docker_env, returncode, new_files, calls, existedAtCall,
                 dirAtCall, filesAtCall>>

\* What `docker run ... python -m build` can do: not start at all (subprocess.run
\* raises, e.g. no docker executable), or run, leave files in /output_dir and
\* exit with a return code.
BuildOutcomes ==
  [started : {TRUE}, rc : {0, 1}, produced : SUBSET {ExpectedFile, OtherOutput}]
    \cup {[started |-> FALSE, rc |-> -1, produced |-> {}]}

\* What a diffoscope process can do: not start, or exit 0 (no differences),
\* 1 (differences) with its report written, or 2 (trouble) without a report.
DiffOutcomes ==
  { [started |-> FALSE, rc |-> -1, report |-> FALSE],
    [started |-> TRUE, rc |-> 0, report |-> TRUE],
    [started |-> TRUE, rc |-> 1, report |-> TRUE],
    [started |-> TRUE, rc |-> 2, report |-> FALSE] }

\* the build mode repack passes to python -m build
build_mode(a) == IF detect(pkgs[a].fname) = "sdist" THEN "--sdist" ELSE "--wheel"

\* repack, lines 158-174, with run_in_docker: the docker tag is computed from
\* docker_env (TypeError for None) before the log files are opened and the
\* process is started.
Rebuild ==
  /\ pc = "rebuild"
  /\ IF docker_env = None
     THEN /\ Leave("TypeError", "rebuild")
          /\ UNCHANGED <<files, returncode, calls>>
     ELSE \E o \in BuildOutcomes :
            /\ files' = [files EXCEPT ![cur] = @ \cup LogFiles \cup o.produced]
            /\ calls' = Append(calls, [tool |-> "build", arg |-> build_mode(cur),
                                       started |-> o.started, rc |-> o.rc])
            /\ IF o.started
               THEN /\ returncode' = o.rc
                    /\ pc' = "evaluate"
                    /\ UNCHANGED goOn
               ELSE /\ Leave("OSError", "rebuild")
                    /\ UNCHANGED returncode
  /\ UNCHANGED <<static, dirExists, batchVars, mode, cur, supplied, srcFrom,
                 docker_env, existing_files, new_files, existedAtCall,
                 dirAtCall, filesAtCall>>

\* Evaluate without the return-code test
Evaluate_IgnoreReturncode ==
  /\ pc = "evaluate"
  /\ new_files' = (files[cur] \ existing_files) \ LogFiles
  /\ IF ExpectedFile \notin new_files'
     THEN Leave("False", "nooutput")
     ELSE /\ pc' = "rawdiff"
          /\ UNCHANGED goOn
  /\ UNCHANGED <<static, fsVars, batchVars, mode, cur, supplied, srcFrom,
                 docker_env, existing_files, returncode, calls, existedAtCall,
                 dirAtCall, filesAtCall>>

\* repack, lines 176-185
Evaluate ==
  /\ pc = "evaluate"
  /\ new_files' = (files[cur] \ existing_files) \ LogFiles
  /\ IF returncode # 0
     THEN Leave("False", "buildfailed")
     ELSE IF ExpectedFile \notin new_files'
     THEN Leave("False", "nooutput")
     ELSE /\ pc' = "rawdiff"
          /\ UNCHANGED goOn
  /\ UNCHANGED <<static, fsVars, batchVars, mode, cur, supplied, srcFrom,
                 docker_env, existing_files, returncode, calls, existedAtCall,
                 dirAtCall, filesAtCall>>

\* common.run_diffoscope: the two log files are opened for writing in the
\* repack directory, then the process is run; its return code is handed back
\* and an exception of subprocess.run is not caught.
run_diffoscope(suffix, logs, report, here, next) ==
  \E o \in DiffOutcomes :
    /\ files' = [files EXCEPT ![cur] =
                   @ \cup logs \cup (IF o.report THEN {report} ELSE {})]
    /\ calls' = Append(calls, [tool |-> "diffoscope", arg |-> suffix,
                               started |-> o.started, rc |-> o.rc])
    /\ IF o.started
       THEN /\ pc' = next
            /\ UNCHANGED goOn
       ELSE Leave("OSError", here)

\* repack, lines 188-190
RawDiff ==
  /\ pc = "rawdiff"
  /\ run_diffoscope("", RawDiffLogs, RawDiffReport, "rawdiff", "normalize")
  /\ UNCHANGED <<static, dirExists, batchVars, mode, cur, supplied, srcFrom,
                 docker_env, existing_files, returncode, new_files,
                 existedAtCall, dirAtCall, filesAtCall>>

\* repack, lines 192-201: the scratch directory is created and both archives
\* are normalized into it; reading or writing an archive can raise.
Normalize ==
  /\ pc = "normalize"
  /\ \E ok \in BOOLEAN :
       IF ok
       THEN /\ tmp' = tmp \cup {TmpNorm}
            /\ pc' = "normdiff"
            /\ UNCHANGED <<outcome, stopped, seen>>
       ELSE Leave("ReadError", "normalize")
  /\ UNCHANGED <<static, fsVars, batchVars, mode, cur, supplied, srcFrom,
                 docker_env, existing_files, returncode, new_files, calls,
                 existedAtCall, dirAtCall, filesAtCall>>

\* repack, lines 202-208
NormDiff ==
  /\ pc = "normdiff"
  /\ run_diffoscope("_normalized", NormDiffLogs, NormDiffReport, "normdiff",
                    "finish")
  /\ UNCHANGED <<static, dirExists, batchVars, mode, cur, supplied, srcFrom,
                 docker_env, existing_files, returncode, new_files,
                 existedAtCall, dirAtCall, filesAtCall>>

\* repack, lines 210-212: both with-blocks are left and True is returned
Finish ==
  /\ pc = "finish"
  /\ Leave("True", "end")
  /\ UNCHANGED <<static, fsVars, batchVars, mode, cur, supplied, srcFrom,
                 docker_env, existing_files, returncode, new_files, calls,
                 existedAtCall, dirAtCall, filesAtCall>>

(***************************************************************************)
(* repack_all                                                              *)
(***************************************************************************)
\* repack_all is called: the enumeration starts
RepackAllStart ==
  /\ mode = "none"
  /\ pc = "idle"
  /\ mode' = "batch"
  /\ batch' = "running"
  /\ idx' = 1
  /\ visited' = {}
  /\ UNCHANGED <<static, fsVars, runVars, seen>>

\* the loop body did not call repack: `continue`, or an exception that
\* leaves repack_all
NoRun(a, value, where) ==
  /\ pc' = "done"
  /\ cur' = a
  /\ supplied' = FALSE
  /\ srcFrom' = "none"
  /\ docker_env' = Unset
  /\ existing_files' = {}
  /\ returncode' = -1
  /\ new_files' = {}
  /\ calls' = <<>>
  /\ outcome' = value
  /\ stopped' = where
  /\ tmp' = {}

\* repack_all, lines 216-229: the loop body for the artifact at idx, up to the
\* call of repack.  get_environment_version is called outside the try block.
RepackAllStep ==
  /\ mode = "batch"
  /\ batch = "running"
  /\ pc = "idle"
  /\ idx \in Art
  /\ visited' = visited \cup {idx}
  /\ existedAtCall' = RebuiltExists(idx)
  /\ dirAtCall' = dirExists[idx]
  /\ filesAtCall' = files[idx]
  /\ IF RebuiltExists(idx)
     THEN /\ NoRun(idx, "skipped", "batch_exists")
          /\ UNCHANGED <<mode, batch>>
     ELSE \E e \in get_environment_version(pkgs[idx].fname) :
            IF e = Raised
            THEN /\ NoRun(idx, "InvalidWheelFilename", "batch_env")
                 /\ batch' = "aborted"
                 /\ UNCHANGED mode
            ELSE IF e = None
            THEN /\ NoRun(idx, "skipped", "batch_noenv")
                 /\ UNCHANGED <<mode, batch>>
            ELSE /\ Enter(idx, FALSE, "batch")
                 /\ UNCHANGED batch
  /\ UNCHANGED <<static, fsVars, idx, seen>>

\* repack_all, lines 228-231 and the loop header: the result of repack is
\* dropped, an exception of repack is caught and printed, and the loop goes
\* on with the next artifact or ends.
RepackAllNext ==
  /\ mode = "batch"
  /\ batch = "running"
  /\ pc = "done"
  /\ Forget
  /\ idx' = idx + 1
  /\ batch' = IF idx + 1 \in Art THEN "running" ELSE "finished"
  /\ UNCHANGED <<static, fsVars, mode, visited, seen>>

\* repack_all returns, or the exception that ended it reaches its caller
RepackAllReturn ==
  /\ mode = "batch"
  /\ batch \in {"finished", "aborted"}
  /\ mode' = "none"
  /\ Forget
  /\ batch' = "idle"
  /\ idx' = 0
  /\ visited' = {}
  /\ UNCHANGED <<static, fsVars, seen>>

Next ==
  \/ \E a \in Art, withSource \in BOOLEAN : CallRepack(a, withSource)
  \/ \E a \in Art : CliRepack(a)
  \/ Return
  \/ LocateSource
  \/ SelectEnv
  \/ Prepare
  \/ Rebuild
  \/ Evaluate
  \/ RawDiff
  \/ Normalize
  \/ NormDiff
  \/ Finish
  \/ RepackAllStart
  \/ RepackAllStep
  \/ RepackAllNext
  \/ RepackAllReturn

Spec == Init /\ [][Next]_vars

(***************************************************************************)
(* Vocabulary of the properties                                            *)
(***************************************************************************)
\* the current run invoked (or tried to start) the external tool
Ran(tool) == \E i \in DOMAIN calls : calls[i].tool = tool

RanWith(tool, arg) ==
  \E i \in DOMAIN calls : calls[i].tool = tool /\ calls[i].arg = arg

\* the run variables describe a call of repack (not a `continue` of repack_all)
InRepack == pc \notin {"idle"} /\ stopped \notin {"batch_exists", "batch_noenv", "batch_env"}

\* outcomes that are exceptions
Exceptions ==
  {"FileNotFoundError", "RuntimeError", "InvalidWheelFilename", "TypeError",
   "OSError", "ReadError"}

\* the run passed the evaluation of the rebuild (step 5)
PassedEvaluation ==
  \/ pc \in {"rawdiff", "normalize", "normdiff", "finish"}
  \/ pc = "done" /\ stopped \in {"rawdiff", "normalize", "normdiff", "end"}

\* the repack directory of the current artifact is as it was at the call
Untouched ==
  /\ dirExists[cur] = dirAtCall
  /\ files[cur] = filesAtCall

(***************************************************************************)
(* C1  Already-rebuilt short-circuit                                       *)
(***************************************************************************)
\* C1 as stated: a run that finds the expected rebuilt file present at its
\* start ends without invoking the build tool or a diff tool and without
\* raising an error.
C1_AlreadyRebuiltNeverRaises ==
  (pc = "done" /\ existedAtCall) =>
     /\ calls = <<>>
     /\ outcome \notin Exceptions

\* C1 as amended: a run that finds the expected rebuilt file present at its
\* start never invokes the build tool or a diff tool and leaves the repack
\* directory as it is; repack_all skips the artifact without calling repack;
\* repack returns False from the already-rebuilt test unless locating the
\* source or resolving the environment, which come first, raised.
C1_AlreadyRebuiltShortCircuit ==
  existedAtCall =>
     /\ calls = <<>>
     /\ files[cur] = filesAtCall
     /\ pc \notin {"rebuild", "evaluate", "rawdiff", "normalize", "normdiff", "finish"}
     /\ mode = "batch" => (pc = "done" /\ outcome = "skipped")
     /\ (pc = "done" /\ mode # "batch") =>
          \/ outcome = "False" /\ stopped = "already"
          \/ outcome \in Exceptions /\ stopped \in {"locate", "selectenv"}

\* a second run of repack on a rebuilt artifact has returned from the test
C1_Witness ==
  /\ pc = "done"
  /\ mode = "api"
  /\ existedAtCall
  /\ outcome = "False"
  /\ stopped = "already"

(***************************************************************************)
(* C2  Rebuild gating                                                      *)
(***************************************************************************)
\* C2: the raw diff, the normalization and the normalized diff are reached
\* only after a build with return code 0 whose expected file is among the new
\* files (listing minus snapshot minus the two log files); a non-zero return
\* code ends the run with nothing further run, and so does return code 0
\* without the expected file among the new files.
C2_RebuildGating ==
  /\ (PassedEvaluation \/ Ran("diffoscope") \/ "norm" \in tmp) =>
        /\ returncode = 0
        /\ ExpectedFile \in new_files
        /\ new_files = (files[cur] \ existing_files)
                          \ ({"repack.stdout.txt", "repack.stderr.txt"}
                               \cup RawDiffLogs \cup {RawDiffReport}
                               \cup NormDiffLogs \cup {NormDiffReport})
  /\ (InRepack /\ returncode > 0 /\ pc # "evaluate") =>
        /\ pc = "done"
        /\ outcome = "False"
        /\ stopped = "buildfailed"
        /\ ~Ran("diffoscope")
        /\ Len(calls) = 1
  /\ (InRepack /\ returncode = 0 /\ pc # "evaluate"
        /\ ExpectedFile \notin (files[cur] \ existing_files)) =>
        /\ pc = "done"
        /\ outcome = "False"
        /\ stopped = "nooutput"
        /\ Len(calls) = 1

\* a build that left the expected file but exited non-zero stopped the run
C2_Witness ==
  /\ pc = "done"
  /\ stopped = "buildfailed"
  /\ returncode = 1
  /\ ExpectedFile \in new_files

(***************************************************************************)
(* C3  Batch failure isolation                                             *)
(***************************************************************************)
\* C3: repack_all never ends before every enumerated artifact was processed:
\* no error of one artifact ends the loop.
C3_BatchIsolation ==
  (mode = "batch" /\ batch \in {"finished", "aborted"}) =>
     /\ batch = "finished"
     /\ visited = Art

(***************************************************************************)
(* C4  Source location                                                     *)
(***************************************************************************)
\* C4: without a supplied source tree a wheel is rebuilt from a sibling source
\* distribution only, and without one repack raises the no-source error with
\* the repack directory not created and the build tool not invoked; a source
\* distribution is rebuilt from itself.
C4_SourceLocation ==
  (InRepack /\ ~supplied) =>
     /\ detect(pkgs[cur].fname) = "wheel" =>
          /\ srcFrom \in {"none", "sibling"}
          /\ (srcFrom = "sibling" \/ Ran("build")) => pkgs[cur].sibling
          /\ (~pkgs[cur].sibling /\ pc # "locate") =>
               /\ pc = "done"
               /\ outcome = "FileNotFoundError"
               /\ stopped = "locate"
               /\ calls = <<>>
               /\ Untouched
     /\ detect(pkgs[cur].fname) = "sdist" =>
          /\ srcFrom \in {"none", "self"}
          /\ Ran("build") => srcFrom = "self"

\* a wheel without sibling source distribution was refused, with no repack
\* directory on disk
C4_Witness ==
  /\ pc = "done"
  /\ InRepack
  /\ ~supplied
  /\ detect(pkgs[cur].fname) = "wheel"
  /\ ~pkgs[cur].sibling
  /\ outcome = "FileNotFoundError"
  /\ ~dirExists[cur]

(***************************************************************************)
(* C5  Unsupported environment                                             *)
(***************************************************************************)
\* C5: a run for an artifact whose environment resolves to None, once the
\* source is located, ends without an error, without creating or changing the
\* repack directory and without invoking the build tool, on every entry path.
C5_UnsupportedEnvIsSkip ==
  (pc = "done" /\ cur \in Art
     /\ get_environment_version(pkgs[cur].fname) = {None}
     /\ stopped # "locate") =>
     /\ outcome \notin Exceptions
     /\ Untouched
     /\ ~Ran("build")

(***************************************************************************)
(* C6  Diff tools are best-effort                                          *)
(***************************************************************************)
\* C6: a failure of a diff tool invocation (non-zero return code, or the
\* process not starting) never ends the run: no run ends in the raw-diff or
\* the normalized-diff step.
C6_DiffBestEffort ==
  (pc = "done"
     /\ \E i \in DOMAIN calls :
          /\ calls[i].tool = "diffoscope"
          /\ (~calls[i].started \/ calls[i].rc # 0)) =>
     stopped \notin {"rawdiff", "normdiff"}

(***************************************************************************)
(* C7  Pipeline completion                                                 *)
(***************************************************************************)
\* C7: repack never reports success without checksums.json and
\* reproducible_results.json written in the repack directory.
C7_SuccessHasChecksumsAndVerdict ==
  (pc = "done" /\ outcome = "True") =>
     {ChecksumFile, VerdictFile} \subseteq files[cur]

(***************************************************************************)
(* C8  Both diff tools per diff step                                       *)
(***************************************************************************)
\* C8: a run that passed the evaluation and completed invoked the structural
\* diff tool and the semantic diff tool on the raw pair and both again on the
\* normalized pair.
C8_BothDiffTools ==
  (pc = "done" /\ outcome = "True") =>
     /\ RanWith("diffoscope", "")
     /\ RanWith("aura_diff", "")
     /\ RanWith("diffoscope", "_normalized")
     /\ RanWith("aura_diff", "_normalized")

(***************************************************************************)
(* C9  Failure kinds are distinguishable                                   *)
(***************************************************************************)
\* C9: the values repack reports for 'already rebuilt', BuildFailed and
\* OutputNotProduced differ pairwise.
C9_KindsDistinguishable ==
  \A p, q \in seen :
     (/\ p[1] \in {"already", "buildfailed", "nooutput"}
      /\ q[1] \in {"already", "buildfailed", "nooutput"}
      /\ p[1] # q[1]) => p[2] # q[2]

(***************************************************************************)
(* C10 No partial output on fatal steps                                    *)
(***************************************************************************)
\* C10: a run that stops in steps 1-5 leaves in the repack directory no file
\* it produced other than repack.stdout.txt and repack.stderr.txt, and after
\* a BuildFailed run the expected rebuilt file does not exist.
C10_NoPartialOutput ==
  (pc = "done" /\ InRepack
     /\ stopped \in {"locate", "selectenv", "rebuild", "buildfailed", "nooutput"}) =>
     /\ (files[cur] \ filesAtCall) \subseteq LogFiles
     /\ stopped = "buildfailed" => ~RebuiltExists(cur)

(***************************************************************************)
(* postprocessing.py: tags of a classification report                      *)
(***************************************************************************)
\* A tag is a string: a sequence of atoms, an atom being the colon or a piece
\* of text without a colon.
Colon == ":"
TagAtoms == {Colon, "a"}
MaxTagLen == 5

SeqsUpTo(S, n) == UNION {[1..k -> S] : k \in 0..n}

Tags == SeqsUpTo(TagAtoms, MaxTagLen)

\* tag.split(":"): the pieces between the colons, empty pieces included; the
\* result has one piece more than the tag has colons
RECURSIVE split(_)
split(s) ==
  IF \A i \in DOMAIN s : s[i] # Colon
  THEN <<s>>
  ELSE LET i == CHOOSE k \in DOMAIN s :
                  s[k] = Colon /\ \A j \in 1..(k - 1) : s[j] # Colon
       IN  <<SubSeq(s, 1, i - 1)>> \o split(SubSeq(s, i + 1, Len(s)))

\* ":".join(parts)
RECURSIVE join(_)
join(parts) ==
  IF Len(parts) = 0 THEN <<>>
  ELSE IF Len(parts) = 1 THEN parts[1]
  ELSE parts[1] \o <<Colon>> \o join(Tail(parts))

\* unwind_tag with the loop over range(1, len(split_tag)): the whole tag is
\* never added
unwind_tag_ProperPrefixes(tag) ==
  LET split_tag == split(tag)
  IN  {join(SubSeq(split_tag, 1, i)) : i \in 1..(Len(split_tag) - 1)}

\* unwind_tag: for every i of range(1, len(split_tag)+1) add
\* ":".join(split_tag[:i])
unwind_tag(tag) ==
  LET split_tag == split(tag)
  IN  {join(SubSeq(split_tag, 1, i)) : i \in 1..Len(split_tag)}

\* extract_tags: the union of unwind_tag over every tag of every detection
extract_tags(aura_diff) ==
  UNION {UNION {unwind_tag(aura_diff.detections[d].tags[t]) :
                  t \in DOMAIN aura_diff.detections[d].tags} :
           d \in DOMAIN aura_diff.detections}

Detection(ts) == [tags |-> ts]
Report(ds) == [detections |-> ds]

\* the classification reports extract_tags is exercised on: no detection, a
\* detection without tags, one or two tags in one detection, two detections
\* of one tag each
Reports ==
  {Report(<<>>), Report(<<Detection(<<>>)>>)}
    \cup {Report(<<Detection(<<t>>)>>) : t \in Tags}
    \cup {Report(<<Detection(<<t, u>>)>>) : t \in Tags, u \in Tags}
    \cup {Report(<<Detection(<<t>>), Detection(<<u>>)>>) : t \in Tags, u \in Tags}

\* every tag of every detection of a report
TagsOf(aura_diff) ==
  UNION {{aura_diff.detections[d].tags[t] :
            t \in DOMAIN aura_diff.detections[d].tags} :
           d \in DOMAIN aura_diff.detections}

\* extract_tags applied to a report
ExtractTags ==
  /\ ag.pc = "report"
  /\ ag' = [ag EXCEPT !.pc = "extracted", !.tags = extract_tags(ag.aura_diff)]
  /\ UNCHANGED <<repackVars, ev, nz, rd>>

\* the closure taken again, of the tags extract_tags returned
CloseAgain ==
  /\ ag.pc = "extracted"
  /\ ag' = [ag EXCEPT !.pc = "closed",
                      !.again = UNION {unwind_tag(t) : t \in ag.tags}]
  /\ UNCHANGED <<repackVars, ev, nz, rd>>

TagsInit ==
  /\ pkgs = Dataset(0)
  /\ RepackIdle
  /\ ev = Off
  /\ nz = Off
  /\ rd = Off
  /\ \E r \in Reports :
       ag = [pc |-> "report", aura_diff |-> r, tags |-> {}, again |-> {}]

TagsNext ==
  \/ ExtractTags
  \/ CloseAgain

SpecTags == TagsInit /\ [][TagsNext]_vars

\* the prefixes of a tag that end where the tag ends or just before a colon
ColonPrefixes(t) ==
  {SubSeq(t, 1, n) : n \in {k \in 0..Len(t) : k = Len(t) \/ t[k + 1] = Colon}}

PrefixClosed(ts) == \A t \in ts : ColonPrefixes(t) \subseteq ts

(***************************************************************************)
(* C11: prefix closure                                                     *)
(***************************************************************************)
\* C11 as stated: extract_tags returns exactly the non-empty colon-delimited
\* prefixes of every tag of every detection, the result is prefix-closed and
\* closing it again leaves it unchanged.
C11_NonEmptyPrefixes ==
  /\ (ag.pc \in {"extracted", "closed"}) =>
       /\ ag.tags = UNION {ColonPrefixes(t) \ {<<>>} : t \in TagsOf(ag.aura_diff)}
       /\ \A t \in ag.tags : (ColonPrefixes(t) \ {<<>>}) \subseteq ag.tags
  /\ (ag.pc = "closed") => ag.again = ag.tags

\* C11: extract_tags returns exactly the colon-delimited prefixes of every tag
\* of every detection (for a:b:c: a, a:b, a:b:c) and nothing else, the empty
\* string being among them exactly when a tag is empty or starts with a
\* colon; the result is prefix-closed and closing it again leaves it
\* unchanged.
C11_PrefixClosure ==
  /\ (ag.pc \in {"extracted", "closed"}) =>
       /\ ag.tags = UNION {ColonPrefixes(t) : t \in TagsOf(ag.aura_diff)}
       /\ PrefixClosed(ag.tags)
       /\ (<<>> \in ag.tags) <=>
            \E t \in TagsOf(ag.aura_diff) : t = <<>> \/ Head(t) = Colon
  /\ (ag.pc = "closed") => ag.again = ag.tags

\* the tags a:a:a and :a of two detections were closed to a, a:a, a:a:a, :a
\* and the empty string, and closed again
C11_Witness ==
  /\ ag.pc = "closed"
  /\ ag.aura_diff = Report(<<Detection(<<<<"a", Colon, "a", Colon, "a">>>>),
                             Detection(<<<<Colon, "a">>>>)>>)
  /\ ag.tags = {<<"a">>, <<"a", Colon, "a">>, <<"a", Colon, "a", Colon, "a">>,
                <<>>, <<Colon, "a">>}

(***************************************************************************)
(* postprocessing.py: extract_reasons_from_tags                            *)
(***************************************************************************)
\* the string made of the given pieces of text, joined by colons
Str(words) == join([i \in DOMAIN words |-> <<words[i]>>])

NR == "non-reproducibility"

\* extract_reasons_from_tags with archive_metadata read off the key-value tag
\* instead of the metadata tag
extract_reasons_from_tags_ArchiveFromKeyValue(tags) ==
  [archive_metadata |-> Str(<<NR, "metadata", "key-value">>) \in tags,
   packaging_tools |-> Str(<<NR, "tooling">>) \in tags,
   timestamps |-> Str(<<NR, "zip", "timestamp">>) \in tags,
   permissions |-> Str(<<NR, "zip", "external-attributes">>) \in tags,
   unknown |-> Str(<<NR, "unknown">>) \in tags,
   distribution_metadata |->
     \/ Str(<<NR, "metadata", "payload", "normalization">>) \in tags
     \/ Str(<<NR, "metadata", "key-value">>) \in tags
     \/ Str(<<NR, "metadata", "payload", "unknown">>) \in tags,
   distribution_description |->
     Str(<<NR, "metadata", "payload", "normalization">>) \in tags,
   distribution_headers |-> Str(<<NR, "metadata", "key-value">>) \in tags]

\* extract_reasons_from_tags: eight flags, all False unless a tag of the
\* taxonomy is in the set
extract_reasons_from_tags(tags) ==
  [archive_metadata |-> Str(<<NR, "metadata">>) \in tags,
   packaging_tools |-> Str(<<NR, "tooling">>) \in tags,
   timestamps |-> Str(<<NR, "zip", "timestamp">>) \in tags,
   permissions |-> Str(<<NR, "zip", "external-attributes">>) \in tags,
   unknown |-> Str(<<NR, "unknown">>) \in tags,
   distribution_metadata |->
     \/ Str(<<NR, "metadata", "payload", "normalization">>) \in tags
     \/ Str(<<NR, "metadata", "key-value">>) \in tags
     \/ Str(<<NR, "metadata", "payload", "unknown">>) \in tags,
   distribution_description |->
     Str(<<NR, "metadata", "payload", "normalization">>) \in tags,
   distribution_headers |-> Str(<<NR, "metadata", "key-value">>) \in tags]

(***************************************************************************)
(* common.py: ReproducibleResults; postprocessing.py: combine_results      *)
(***************************************************************************)
\* null, and a value that is not null
Some(v) == <<v>>

\* A file of the data directory: whether it exists, its size (2 stands for
\* every size above one byte), whether json.loads accepts it, and what it
\* parses to.
Missing(json) == [exists |-> FALSE, size |-> 0, wellformed |-> FALSE, json |-> json]
Placeholder(n, json) == [exists |-> TRUE, size |-> n, wellformed |-> FALSE, json |-> json]
Malformed(json) == [exists |-> TRUE, size |-> 2, wellformed |-> FALSE, json |-> json]
Document(json) == [exists |-> TRUE, size |-> 2, wellformed |-> TRUE, json |-> json]

\* the states of a file whose parsed content is one of `jsons`; `d` is what
\* the model keeps as content of a file that is never parsed
FileStates(jsons, d) ==
  {Missing(d), Placeholder(0, d), Placeholder(1, d), Malformed(d)}
    \cup {Document(j) : j \in jsons}

\* _check_file with the size test left out
check_file_ExistsOnly(location) ==
  IF location.exists THEN Some(location) ELSE None

\* ReproducibleResults._check_file
check_file(location) ==
  IF location.exists /\ location.size > 1 THEN Some(location) ELSE None

Hashes == {"h1", "h2"}

ChecksumDocs ==
  [original : Hashes, repacked : Hashes,
   normalized_original : Hashes, normalized_repacked : Hashes]

NoSums ==
  [original |-> "h1", repacked |-> "h1",
   normalized_original |-> "h1", normalized_repacked |-> "h1"]

\* the classification reports combine_results is exercised on
AggTags == {Str(<<NR, "metadata", "key-value">>), Str(<<NR, "zip", "timestamp">>)}

AggReports ==
  {Report(<<>>)}
    \cup {Report(<<Detection(<<t>>)>>) : t \in AggTags}
    \cup {Report(<<Detection(<<Str(<<NR, "metadata", "key-value">>)>>),
                    Detection(<<Str(<<NR, "zip", "timestamp">>)>>)>>)}

\* the data directories combine_results is exercised on
DataDirs ==
  [pypi_metadata : {Missing("metadata"), Document("metadata")},
   diff : FileStates({"diff"}, "diff"),
   diff_normalized : FileStates({"diff_normalized"}, "diff_normalized"),
   aura_diff : FileStates(AggReports, Report(<<>>)),
   aura_diff_normalized : FileStates(AggReports, Report(<<>>)),
   checksums : FileStates(ChecksumDocs, NoSums)]

\* a key of combined["results"]: whether it was set, and to what
NoKey(d) == [key |-> FALSE, val |-> d]
Key(v) == [key |-> TRUE, val |-> v]

\* lines 38-42 and 47-51 with the tags taken as they stand in the report,
\* not closed
TagsIn_Unclosed(adiff) ==
  IF adiff = None THEN None ELSE Some(TagsOf(adiff[1].json))

\* lines 38-42 and 47-51: the tags of a classification report that is present
TagsIn(adiff) ==
  IF adiff = None THEN None ELSE Some(extract_tags(adiff[1].json))

\* lines 41-42 and 50-51: the reasons entry of a classification report
ReasonsIn(tags) ==
  IF tags = None THEN NoKey(None)
  ELSE Key(Some(extract_reasons_from_tags(tags[1])))

\* lines 53-60 with False in place of None when there are no checksums
Verdict_FalseWhenAbsent(md5s, a, b) ==
  IF md5s = None THEN Key(Some(FALSE))
  ELSE Key(Some(md5s[1].json[a] = md5s[1].json[b]))

\* lines 53-60: a verdict is the equality of two hashes of the checksum
\* document, or None when there is no checksum document
Verdict(md5s, a, b) ==
  IF md5s = None THEN Key(None)
  ELSE Key(Some(md5s[1].json[a] = md5s[1].json[b]))

\* lines 62-66 with the difference taken the other way round
RemovedTags_Reversed(o_tags, n_tags) ==
  IF n_tags # None /\ o_tags # None THEN Some(n_tags[1] \ o_tags[1]) ELSE None

\* lines 62-66: diff_tags = o_tags - n_tags when both are there
RemovedTags(o_tags, n_tags) ==
  IF n_tags # None /\ o_tags # None THEN Some(o_tags[1] \ n_tags[1]) ELSE None

\* json.loads raises on the file at this location
Unreadable(f) == f # None /\ ~f[1].wellformed

\* a document that was read, or null
Loaded(f) == IF f = None THEN None ELSE Some(f[1].json)

\* combine_results, lines 11-66: what is raised, or the dictionary `combined`
\* (without package_name, version and package_type, which are copied from the
\* path of the artifact)
combine_results(dir) ==
  LET orig_diff == check_file(dir.diff)
      orig_adiff == check_file(dir.aura_diff)
      norm_diff == check_file(dir.diff_normalized)
      norm_adiff == check_file(dir.aura_diff_normalized)
      md5s == check_file(dir.checksums)
      o_tags == TagsIn(orig_adiff)
      n_tags == TagsIn(norm_adiff)
      diff_tags == RemovedTags(o_tags, n_tags)
  IN  IF ~dir.pypi_metadata.exists
      THEN [raised |-> "FileNotFoundError", combined |-> None]
      ELSE IF \/ Unreadable(orig_diff) \/ Unreadable(orig_adiff)
              \/ Unreadable(norm_diff) \/ Unreadable(norm_adiff)
              \/ Unreadable(md5s)
      THEN [raised |-> "JSONDecodeError", combined |-> None]
      ELSE [raised |-> "none",
            combined |-> Some(
              [package_metadata |-> dir.pypi_metadata.json,
               original_diffoscope |-> Loaded(orig_diff),
               original_aura_diff |-> Loaded(orig_adiff),
               original_tags |-> o_tags,
               normalized_diffoscope |-> Loaded(norm_diff),
               normalized_aura_diff |-> Loaded(norm_adiff),
               normalized_tags |-> n_tags,
               checksums |-> Loaded(md5s),
               normalization_removed_tags |-> diff_tags,
               results |->
                 [original |-> ReasonsIn(o_tags),
                  normalized |-> ReasonsIn(n_tags),
                  reproducible |-> Verdict(md5s, "original", "repacked"),
                  normalized_reproducible |->
                    Verdict(md5s, "normalized_original", "normalized_repacked"),
                  normalization_effects |-> ReasonsIn(diff_tags)]])]

\* the verdict file reproducible_results.json of the data directory
NoVerdict == [state |-> "absent", doc |-> None]
Truncated == [state |-> "empty", doc |-> None]
Partial == [state |-> "partial", doc |-> None]
Complete(doc) == [state |-> "complete", doc |-> doc]

\* the verdict an earlier call of combine_results left in the data directory
EarlierVerdict ==
  Complete(combine_results(
    [pypi_metadata |-> Document("metadata"),
     diff |-> Missing("diff"),
     diff_normalized |-> Missing("diff_normalized"),
     aura_diff |-> Missing(Report(<<>>)),
     aura_diff_normalized |-> Missing(Report(<<>>)),
     checksums |-> Missing(NoSums)]).combined)

AggInit ==
  /\ pkgs = Dataset(0)
  /\ RepackIdle
  /\ ev = Off
  /\ nz = Off
  /\ rd = Off
  /\ \E d \in DataDirs, f \in {NoVerdict, EarlierVerdict} :
       ag = [pc |-> "call", dir |-> d, prior |-> f, file |-> f,
             combined |-> None, raised |-> "none"]

\* combine_results, lines 11-66: the documents are read and `combined` is
\* filled
Combine ==
  /\ ag.pc = "call"
  /\ LET r == combine_results(ag.dir)
     IN  ag' = [ag EXCEPT !.pc = IF r.raised = "none" THEN "computed" ELSE "raised",
                         !.raised = r.raised,
                         !.combined = r.combined]
  /\ UNCHANGED <<repackVars, ev, nz, rd>>

\* line 68: open("w") creates the file or truncates it to nothing; when the
\* open fails nothing is changed
OpenVerdict ==
  /\ ag.pc = "computed"
  /\ \/ ag' = [ag EXCEPT !.pc = "opened", !.file = Truncated]
     \/ ag' = [ag EXCEPT !.pc = "raised", !.raised = "OSError"]
  /\ UNCHANGED <<repackVars, ev, nz, rd>>

\* line 69 and the end of the with-block: the serialized dictionary is
\* written and the file closed; a write or flush that fails leaves what had
\* reached the file
WriteVerdict ==
  /\ ag.pc = "opened"
  /\ \/ ag' = [ag EXCEPT !.pc = "written", !.file = Complete(ag.combined)]
     \/ \E left \in {Truncated, Partial} :
          ag' = [ag EXCEPT !.pc = "raised", !.raised = "OSError", !.file = left]
  /\ UNCHANGED <<repackVars, ev, nz, rd>>

AggNext ==
  \/ Combine
  \/ OpenVerdict
  \/ WriteVerdict

SpecAgg == AggInit /\ [][AggNext]_vars

\* an optional input is present: the file exists and is larger than one byte
Present(f) == f.exists /\ f.size >= 2

\* the tag closure of a classification report
Closure(report) == UNION {ColonPrefixes(t) : t \in TagsOf(report)}

\* combine_results has filled `combined`
Computed == ag.pc \in {"computed", "opened", "written"} \/ ag.combined # None

\* the inputs are such that no present document is rejected by json.loads,
\* and the required project metadata is there
Readable ==
  /\ ag.dir.pypi_metadata.exists
  /\ \A k \in {"diff", "diff_normalized", "aura_diff", "aura_diff_normalized",
               "checksums"} :
       Present(ag.dir[k]) => ag.dir[k].wellformed

(***************************************************************************)
(* C12: set subtraction of the closed tag sets                             *)
(***************************************************************************)
\* C12: when the raw and the normalized classification report are both
\* present, normalization_removed_tags is the closed raw tag set minus the
\* closed normalized tag set; when either is absent it stays null and
\* results has no normalization_effects entry.
C12_SetSubtraction ==
  Computed =>
    LET c == ag.combined[1]
        raw == ag.dir.aura_diff
        norm == ag.dir.aura_diff_normalized
    IN  IF Present(raw) /\ Present(norm)
        THEN /\ c.normalization_removed_tags =
                  Some({t \in Closure(raw.json) : t \notin Closure(norm.json)})
             /\ c.results.normalization_effects.key
        ELSE /\ c.normalization_removed_tags = None
             /\ ~c.results.normalization_effects.key

\* raw tags metadata:key-value and zip:timestamp, normalized tag
\* metadata:key-value: the removed tags are zip and zip:timestamp below
\* non-reproducibility
C12_Witness ==
  /\ Computed
  /\ TagsOf(ag.dir.aura_diff.json) =
       {Str(<<NR, "metadata", "key-value">>), Str(<<NR, "zip", "timestamp">>)}
  /\ TagsOf(ag.dir.aura_diff_normalized.json) = {Str(<<NR, "metadata", "key-value">>)}
  /\ Present(ag.dir.aura_diff) /\ Present(ag.dir.aura_diff_normalized)
  /\ ag.combined[1].normalization_removed_tags =
       Some({Str(<<NR, "zip">>), Str(<<NR, "zip", "timestamp">>)})

(***************************************************************************)
(* C13: checksum verdicts                                                  *)
(***************************************************************************)
\* C13: when the checksum document is present (exists, larger than one byte)
\* reproducible is (original = repacked) and normalized_reproducible is
\* (normalized_original = normalized_repacked); when it is absent (missing or
\* at most one byte) both are null, never false.
C13_ChecksumVerdicts ==
  Computed =>
    LET res == ag.combined[1].results
        sums == ag.dir.checksums
    IN  /\ res.reproducible.key /\ res.normalized_reproducible.key
        /\ IF Present(sums)
           THEN /\ res.reproducible.val =
                     Some(sums.json.original = sums.json.repacked)
                /\ res.normalized_reproducible.val =
                     Some(sums.json.normalized_original = sums.json.normalized_repacked)
                /\ ag.combined[1].checksums = Some(sums.json)
           ELSE /\ res.reproducible.val = None
                /\ res.normalized_reproducible.val = None
                /\ ag.combined[1].checksums = None

\* a one-byte checksum file gave two null verdicts
C13_Witness ==
  /\ Computed
  /\ ag.dir.checksums = Placeholder(1, NoSums)
  /\ ag.combined[1].results.reproducible = Key(None)
  /\ ag.combined[1].results.normalized_reproducible = Key(None)

(***************************************************************************)
(* C18: tolerance of absent optional inputs                                *)
(***************************************************************************)
\* C18: for every combination of present and absent optional inputs (raw and
\* normalized diff report, raw and normalized classification report,
\* checksum document) combine_results raises nothing on account of its
\* inputs, the one verdict document it writes is complete, and every absent
\* input is a null field of it (and every present one a non-null field).
C18_AbsentInputsTolerated ==
  Readable =>
    /\ ag.raised \in {"none", "OSError"}
    /\ ag.pc = "raised" => ag.combined # None
    /\ ag.pc = "written" => ag.file = Complete(ag.combined)
    /\ Computed =>
         LET c == ag.combined[1]
         IN  /\ (c.original_diffoscope = None) <=> ~Present(ag.dir.diff)
             /\ (c.normalized_diffoscope = None) <=> ~Present(ag.dir.diff_normalized)
             /\ (c.original_aura_diff = None) <=> ~Present(ag.dir.aura_diff)
             /\ (c.original_tags = None) <=> ~Present(ag.dir.aura_diff)
             /\ c.results.original.key <=> Present(ag.dir.aura_diff)
             /\ (c.normalized_aura_diff = None) <=> ~Present(ag.dir.aura_diff_normalized)
             /\ (c.normalized_tags = None) <=> ~Present(ag.dir.aura_diff_normalized)
             /\ c.results.normalized.key <=> Present(ag.dir.aura_diff_normalized)
             /\ (c.checksums = None) <=> ~Present(ag.dir.checksums)

\* with no optional input present (files missing, empty or of one byte) the
\* verdict was written, all its optional fields null
C18_Witness ==
  /\ ag.pc = "written"
  /\ ag.dir.diff = Missing("diff")
  /\ ag.dir.diff_normalized = Placeholder(0, "diff_normalized")
  /\ ag.dir.aura_diff = Placeholder(1, Report(<<>>))
  /\ ag.dir.aura_diff_normalized = Missing(Report(<<>>))
  /\ ag.dir.checksums = Missing(NoSums)
  /\ ag.file = EarlierVerdict

(***************************************************************************)
(* C19: all-or-nothing verdict write                                       *)
(***************************************************************************)
\* C19: at every point of every execution of combine_results, including the
\* ones that fail part-way, reproducible_results.json is in the state it had
\* before the call or holds the complete verdict document of the call; it is
\* never empty, truncated or partial.
C19_AllOrNothingWrite ==
  \/ ag.file = ag.prior
  \/ ag.file = Complete(ag.combined) /\ ag.combined # None

(***************************************************************************)
(* common.py: normalize_tar, normalize_zip; repacker.py: Package.normalize *)
(***************************************************************************)
\* entry names: strings, as sequences of code points ("a", "ab", "b")
ArchNames == {<<1>>, <<1, 2>>, <<2>>}

MaxEntries == 2

\* Python's order of strings: by the first code point that differs, a proper
\* prefix before the longer string
RECURSIVE StrLess(_, _)
StrLess(a, b) ==
  IF Len(a) = 0 THEN Len(b) > 0
  ELSE IF Len(b) = 0 THEN FALSE
  ELSE IF a[1] # b[1] THEN a[1] < b[1]
  ELSE StrLess(Tail(a), Tail(b))

\* list.sort(key=...) left out: the members stay in the order of the archive
SortByKey_Unsorted(members, keys) == members

\* list.sort(key=...): a stable sort, members of equal key keep their order.
\* keys[i] is the key of members[i].
SortByKey(members, keys) ==
  LET n == Len(members)
      rank(i) ==
        1 + Cardinality({j \in 1..n : \/ StrLess(keys[j], keys[i])
                                      \/ keys[j] = keys[i] /\ j < i})
  IN  [k \in 1..n |-> members[CHOOSE i \in 1..n : rank(i) = k]]

\* the fields of a tar member the normalizer resets, as found in an archive
\* built by a user, and as they are after the reset
OwnedStamp ==
  [uid |-> 1000, gid |-> 1000, mtime |-> 1700000000, uname |-> "user", gname |-> "staff"]
ZeroStamp == [uid |-> 0, gid |-> 0, mtime |-> 0, uname |-> "", gname |-> ""]

TarStamps == {OwnedStamp, ZeroStamp}

\* tarfile.TarInfo, with the payload that follows its header in the archive
TarInfo(name, type, payload, stamp) ==
  [name |-> name, type |-> type, size |-> Len(payload), payload |-> payload,
   uid |-> stamp.uid, gid |-> stamp.gid, mtime |-> stamp.mtime,
   uname |-> stamp.uname, gname |-> stamp.gname]

Payloads == {<<7>>, <<8>>}

\* the members a tar archive is made of: regular files, directories, and
\* symbolic links as an example of the other types
TarMembers ==
  {TarInfo(n, "REGTYPE", p, s) : n \in ArchNames, p \in Payloads, s \in TarStamps}
    \cup {TarInfo(n, t, <<>>, s) : n \in ArchNames, t \in {"DIRTYPE", "SYMTYPE"},
                                   s \in TarStamps}

isfile(member) == member.type = "REGTYPE"
isdir(member) == member.type = "DIRTYPE"

\* normalize_tar with the modification time of the member copied
normalize_tar_KeepMtime(in_tar) ==
  LET members == SortByKey(in_tar, [i \in DOMAIN in_tar |-> in_tar[i].name])
  IN  [i \in DOMAIN members |->
         IF isfile(members[i]) \/ isdir(members[i])
         THEN [members[i] EXCEPT !.uid = 0, !.gid = 0, !.uname = "", !.gname = ""]
         ELSE members[i]]

\* normalize_tar with every member rewritten, the pass-through branch left out
normalize_tar_ResetAll(in_tar) ==
  LET members == SortByKey(in_tar, [i \in DOMAIN in_tar |-> in_tar[i].name])
  IN  [i \in DOMAIN members |->
         [members[i] EXCEPT !.uid = 0, !.gid = 0, !.mtime = 0,
                            !.uname = "", !.gname = ""]]

\* normalize_tar: the members of out_tar, in the order they are added
normalize_tar(in_tar) ==
  LET members == SortByKey(in_tar, [i \in DOMAIN in_tar |-> in_tar[i].name])
  IN  [i \in DOMAIN members |->
         LET member == members[i]
             new_member ==
               [name |-> member.name, type |-> member.type, size |-> member.size,
                payload |-> <<>>,
                uid |-> 0, gid |-> 0, mtime |-> 0, uname |-> "", gname |-> ""]
         IN  IF isfile(member)
             THEN [new_member EXCEPT !.payload = member.payload]
             ELSE IF isdir(new_member)
             THEN new_member
             ELSE member]

\* date_time and external_attr of a zip member as found in a built wheel
\* (a regular file of mode 0o100644), and as normalize_zip sets them (0o770).
\* external_attr is counted in units of 1 << 16: the value is the upper half
\* of the field, the lower half is zero in both.
BuiltAttrs == [date_time |-> <<2024, 5, 17, 12, 30, 0>>, external_attr |-> 33188]
FixedAttrs == [date_time |-> <<1980, 1, 1, 0, 0, 0>>, external_attr |-> 504]

ZipAttrs == {BuiltAttrs, FixedAttrs}

\* zipfile.ZIP_STORED and zipfile.ZIP_DEFLATED
CompressTypes == {0, 8}

\* zipfile.ZipInfo, with the data of the member
ZipInfo(filename, compress_type, payload, attrs) ==
  [filename |-> filename, compress_type |-> compress_type, payload |-> payload,
   date_time |-> attrs.date_time, external_attr |-> attrs.external_attr]

ZipMembers ==
  {ZipInfo(n, c, p, a) : n \in ArchNames, c \in CompressTypes, p \in Payloads,
                         a \in ZipAttrs}

\* ZipFile.read(name): the data of the member getinfo(name) finds, which is
\* the last member of that name
zip_read(in_zip, name) ==
  LET last == CHOOSE i \in DOMAIN in_zip :
                /\ in_zip[i].filename = name
                /\ \A j \in DOMAIN in_zip : in_zip[j].filename = name => j <= i
  IN  in_zip[last].payload

\* normalize_zip: the members of out_zip, in the order they are written
normalize_zip(in_zip) ==
  LET members == SortByKey(in_zip, [i \in DOMAIN in_zip |-> in_zip[i].filename])
  IN  [i \in DOMAIN members |->
         [filename |-> members[i].filename,
          date_time |-> FixedAttrs.date_time,
          external_attr |-> FixedAttrs.external_attr,
          compress_type |-> members[i].compress_type,
          payload |-> zip_read(in_zip, members[i].filename)]]

\* An archive file: its members, and for a gzip-compressed tar the
\* modification time of the gzip header (0 where there is none).
ArchiveFile(stamp, members) == [stamp |-> stamp, members |-> members]

NoFile == ArchiveFile(0, <<>>)

\* Package.normalize(dest) at the second `now`: a wheel is rewritten by
\* normalize_zip into a ZipFile; anything else by normalize_tar into
\* tarfile.open(dest, "w:gz"), whose gzip header takes the current time.
normalize(form, file, now) ==
  IF form = "whl"
  THEN ArchiveFile(0, normalize_zip(file.members))
  ELSE ArchiveFile(now, normalize_tar(file.members))

Forms == {"whl", "tar.gz"}

MembersOf(form) == IF form = "whl" THEN ZipMembers ELSE TarMembers

\* the archives the normalizers are exercised on
Archives(form) == {ArchiveFile(0, m) : m \in SeqsUpTo(MembersOf(form), MaxEntries)}

\* the seconds at which a normalization may start: the two normalizations of
\* a run are within the same second or not
Seconds == {1, 2}

\* the same member with the other timestamps and owners
Restamp(form, m) ==
  IF form = "whl"
  THEN LET a == IF m.date_time = BuiltAttrs.date_time THEN FixedAttrs ELSE BuiltAttrs
       IN  [m EXCEPT !.date_time = a.date_time, !.external_attr = a.external_attr]
  ELSE LET s == IF m.mtime = 0 THEN OwnedStamp ELSE ZeroStamp
       IN  [m EXCEPT !.uid = s.uid, !.gid = s.gid, !.mtime = s.mtime,
                     !.uname = s.uname, !.gname = s.gname]

Perms(n) == {p \in [1..n -> 1..n] : \A i, j \in 1..n : p[i] = p[j] => i = j}

NormInit ==
  /\ pkgs = Dataset(0)
  /\ RepackIdle
  /\ ev = Off
  /\ ag = Off
  /\ rd = Off
  /\ \E form \in Forms : \E a \in Archives(form) :
       nz = [pc |-> "input", form |-> form, original |-> a, other |-> NoFile,
             out1 |-> NoFile, out2 |-> NoFile, out3 |-> NoFile,
             reproducible |-> None, normalized_reproducible |-> None]

\* Package.normalize on the archive
NormalizeOnce ==
  /\ nz.pc = "input"
  /\ nz' = [nz EXCEPT !.pc = "once", !.out1 = normalize(nz.form, nz.original, 1)]
  /\ UNCHANGED <<repackVars, ev, ag, rd>>

\* Package.normalize on the same archive, independently
NormalizeAgain ==
  /\ nz.pc = "once"
  /\ \E now \in Seconds :
       nz' = [nz EXCEPT !.pc = "twice", !.out2 = normalize(nz.form, nz.original, now)]
  /\ UNCHANGED <<repackVars, ev, ag, rd>>

\* the rebuilt archive of the same members: in any order, with the same
\* timestamps and owners or with others
Rebuilt ==
  /\ nz.pc = "input"
  /\ \E p \in Perms(Len(nz.original.members)), restamp \in BOOLEAN :
       nz' = [nz EXCEPT
                !.pc = "rebuilt",
                !.other = ArchiveFile(0,
                   [i \in DOMAIN nz.original.members |->
                      IF restamp
                      THEN Restamp(nz.form, nz.original.members[p[i]])
                      ELSE nz.original.members[p[i]]])]
  /\ UNCHANGED <<repackVars, ev, ag, rd>>

\* repack, lines 199-201: package.normalize(orig_archive_pth), then
\* new_pkg.normalize(repacked_archive_pth)
NormalizeBoth ==
  /\ nz.pc = "rebuilt"
  /\ \E now \in Seconds :
       nz' = [nz EXCEPT !.pc = "both",
                       !.out1 = normalize(nz.form, nz.original, 1),
                       !.out3 = normalize(nz.form, nz.other, now)]
  /\ UNCHANGED <<repackVars, ev, ag, rd>>

\* The checksum step and the two verdicts drawn from it: the content hashes of
\* the original, the rebuilt and the two normalized archives are compared. A
\* content hash is equal for equal files and (collisions apart) only for them,
\* so the hash of a file is modelled by the file.
Checksums ==
  /\ nz.pc = "both"
  /\ LET md5s == Some(Document([original |-> nz.original, repacked |-> nz.other,
                                normalized_original |-> nz.out1,
                                normalized_repacked |-> nz.out3]))
     IN  nz' = [nz EXCEPT
                  !.pc = "sums",
                  !.reproducible = Verdict(md5s, "original", "repacked").val,
                  !.normalized_reproducible =
                    Verdict(md5s, "normalized_original", "normalized_repacked").val]
  /\ UNCHANGED <<repackVars, ev, ag, rd>>

NormNext ==
  \/ NormalizeOnce
  \/ NormalizeAgain
  \/ Rebuilt
  \/ NormalizeBoth
  \/ Checksums

SpecNorm == NormInit /\ [][NormNext]_vars

\* the names of the members of an archive, in order
NamesOf(form, members) ==
  [i \in DOMAIN members |->
     IF form = "whl" THEN members[i].filename ELSE members[i].name]

\* no two members of the archive have the same name
DistinctNames(form, members) ==
  \A i, j \in DOMAIN members :
    NamesOf(form, members)[i] = NamesOf(form, members)[j] => i = j

\* every member is a regular file or a directory
FilesAndDirs(form, members) ==
  form = "whl" \/ \A i \in DOMAIN members : isfile(members[i]) \/ isdir(members[i])

(***************************************************************************)
(* C14: verdict implication                                                *)
(***************************************************************************)
\* C14: whenever both verdicts are there, reproducible = true implies
\* normalized_reproducible = true.
C14_VerdictImplication ==
  (nz.pc = "sums" /\ nz.reproducible = Some(TRUE)) =>
    nz.normalized_reproducible = Some(TRUE)

(***************************************************************************)
(* C15: canonical entry order                                              *)
(***************************************************************************)
\* C15: for every input archive, tar or zip, whatever the order of its
\* entries and whatever their types, the names of the normalized archive are
\* the names of the input in lexicographic order, one output entry for each
\* input entry.
C15_CanonicalOrder ==
  (nz.pc \in {"once", "twice"}) =>
    LET inN == NamesOf(nz.form, nz.original.members)
        outN == NamesOf(nz.form, nz.out1.members)
    IN  /\ Len(outN) = Len(inN)
        /\ \A i, j \in DOMAIN outN : i < j => ~StrLess(outN[j], outN[i])
        /\ \A n \in ArchNames :
             Cardinality({i \in DOMAIN outN : outN[i] = n}) =
               Cardinality({i \in DOMAIN inN : inN[i] = n})

\* a tar archive of a symbolic link "b" followed by a regular file "ab" was
\* normalized to "ab", "b"
C15_Witness ==
  /\ nz.pc = "once"
  /\ nz.form = "tar.gz"
  /\ Len(nz.original.members) = 2
  /\ nz.original.members[1].type = "SYMTYPE"
  /\ nz.original.members[2].type = "REGTYPE"
  /\ NamesOf(nz.form, nz.original.members) = <<<<2>>, <<1, 2>>>>
  /\ NamesOf(nz.form, nz.out1.members) = <<<<1, 2>>, <<2>>>>

NameAtoms == {".", "_", "x"}
MaxStemLen == 2

Suffixes == {<<".", "whl">>, <<".", "tar", ".", "gz">>}

\* the file names of artifacts: a stem followed by .whl or .tar.gz
FileNames == {stem \o sfx : stem \in SeqsUpTo(NameAtoms, MaxStemLen), sfx \in Suffixes}

Parents == {"dataset/p/1", "dataset/p/2"}

\* the paths of artifacts
Paths == [parent : Parents, name : FileNames]

\* str.replace(".", "_")
replace_dots(s) == [i \in DOMAIN s |-> IF s[i] = "." THEN "_" ELSE s[i]]

\* Package.repack_dir: the parent of the artifact joined with the file name,
\* dots replaced by underscores, followed by "_repacked"
repack_dir(path) ==
  [parent |-> path.parent,
   name |-> replace_dots(path.name) \o <<"_", "repacked">>]

DirsInit ==
  /\ pkgs = Dataset(0)
  /\ RepackIdle
  /\ ev = Off
  /\ ag = Off
  /\ nz = Off
  /\ \E a \in Paths, b \in Paths :
       rd = [pc |-> "paths", a |-> a, b |-> b,
             dir_a |-> [parent |-> "", name |-> <<>>],
             dir_b |-> [parent |-> "", name |-> <<>>]]

\* the repack directories of two artifacts
DeriveDirs ==
  /\ rd.pc = "paths"
  /\ rd' = [rd EXCEPT !.pc = "derived",
                      !.dir_a = repack_dir(rd.a),
                      !.dir_b = repack_dir(rd.b)]
  /\ UNCHANGED <<repackVars, ev, ag, nz>>

DirsNext == DeriveDirs

SpecDirs == DirsInit /\ [][DirsNext]_vars

(***************************************************************************)
(* C17: the repack directory is not shared                                 *)
(***************************************************************************)
\* C17: two artifacts with different paths have different repack directories.
C17_RepackDirInjective ==
  (rd.pc = "derived" /\ rd.a # rd.b) => rd.dir_a # rd.dir_b

(***************************************************************************)
(* C21: the tag sets that are classified                                   *)
(***************************************************************************)
\* C21 as stated: every tag set combine_results maps through the reason
\* taxonomy, for the original, the normalized and the normalization_effects
\* entry of results, is prefix-closed.
C21_AllClassifiedSetsClosed ==
  Computed =>
    LET c == ag.combined[1]
    IN  /\ c.original_tags # None => PrefixClosed(c.original_tags[1])
        /\ c.normalized_tags # None => PrefixClosed(c.normalized_tags[1])
        /\ c.normalization_removed_tags # None =>
             PrefixClosed(c.normalization_removed_tags[1])

\* C21: the tag sets mapped through the reason taxonomy for the original and
\* the normalized entry of results are prefix-closed; the set mapped for
\* normalization_effects is the difference of the two, which holds, of every
\* tag in it, each prefix except those still present after normalization
\* (so it need not be prefix-closed). Each entry of results is the
\* classification of the set named.
C21_ClassifiedSets ==
  Computed =>
    LET c == ag.combined[1]
    IN  /\ c.original_tags # None =>
             /\ PrefixClosed(c.original_tags[1])
             /\ c.results.original =
                  Key(Some(extract_reasons_from_tags(c.original_tags[1])))
        /\ c.normalized_tags # None =>
             /\ PrefixClosed(c.normalized_tags[1])
             /\ c.results.normalized =
                  Key(Some(extract_reasons_from_tags(c.normalized_tags[1])))
        /\ c.normalization_removed_tags # None =>
             /\ \A t \in c.normalization_removed_tags[1] :
                  ColonPrefixes(t) \subseteq
                    (c.normalization_removed_tags[1] \cup c.normalized_tags[1])
             /\ c.normalization_removed_tags[1] \cap c.normalized_tags[1] = {}
             /\ c.results.normalization_effects =
                  Key(Some(extract_reasons_from_tags(c.normalization_removed_tags[1])))

\* raw tags metadata:key-value and zip:timestamp, normalized tag
\* metadata:key-value: the set classified for normalization_effects is
\* {non-reproducibility:zip, non-reproducibility:zip:timestamp}, without
\* non-reproducibility, and gives the timestamps flag
C21_Witness ==
  /\ Computed
  /\ ag.combined[1].original_tags # None
  /\ ag.combined[1].normalized_tags =
       Some({Str(<<NR>>), Str(<<NR, "metadata">>), Str(<<NR, "metadata", "key-value">>)})
  /\ ag.combined[1].normalization_removed_tags =
       Some({Str(<<NR, "zip">>), Str(<<NR, "zip", "timestamp">>)})
  /\ ag.combined[1].results.normalization_effects.val # None
  /\ ag.combined[1].results.normalization_effects.val[1].timestamps

(***************************************************************************)
(* C22: metadata of the normalized tar                                     *)
(***************************************************************************)
\* an entry with owner ids 0, empty owner names and modification time 0, and
\* everything else as it was
ResetEntry(m) ==
  [m EXCEPT !.uid = 0, !.gid = 0, !.mtime = 0, !.uname = "", !.gname = ""]

\* C22: the normalized tar holds, for every regular file and directory of the
\* input, one entry with uid = gid = 0, empty user and group name,
\* modification time 0 and the type, size and payload of the original; and
\* for every entry of another type one entry that is the original entry,
\* metadata unchanged; and nothing else.
C22_TarMetadata ==
  (nz.pc \in {"once", "twice"} /\ nz.form = "tar.gz") =>
    LET inM == nz.original.members
        outM == nz.out1.members
        want(m) == IF m.type \in {"REGTYPE", "DIRTYPE"} THEN ResetEntry(m) ELSE m
    IN  /\ Len(outM) = Len(inM)
        /\ \A i \in DOMAIN outM :
             Cardinality({j \in DOMAIN outM : outM[j] = outM[i]}) =
               Cardinality({j \in DOMAIN inM : want(inM[j]) = outM[i]})

\* a tar of a regular file and a symbolic link, both owned by a user and
\* with a modification time, was normalized: the file is reset, the link is
\* as it was
C22_Witness ==
  /\ nz.pc = "once"
  /\ nz.form = "tar.gz"
  /\ nz.original.members =
       <<TarInfo(<<1>>, "REGTYPE", <<7>>, OwnedStamp),
         TarInfo(<<2>>, "SYMTYPE", <<>>, OwnedStamp)>>
  /\ nz.out1.members =
       <<TarInfo(<<1>>, "REGTYPE", <<7>>, ZeroStamp),
         TarInfo(<<2>>, "SYMTYPE", <<>>, OwnedStamp)>>

(***************************************************************************)
(* C23: metadata of the normalized zip                                     *)
(***************************************************************************)
\* C23: every entry of the normalized zip has the modification timestamp
\* 1980-01-01T00:00:00 and an external-attributes word whose upper 16 bits
\* are the mode 0o770 with the regular-file bit 0o100000 (0o100770 = 33272),
\* and the entries have the names, compression methods and payloads of the
\* source entries.
C23_ZipMetadata ==
  (nz.pc \in {"once", "twice"} /\ nz.form = "whl") =>
    LET inM == nz.original.members
        outM == nz.out1.members
        same(o, m) == /\ o.filename = m.filename
                      /\ o.compress_type = m.compress_type
                      /\ o.payload = m.payload
    IN  /\ Len(outM) = Len(inM)
        /\ \A i \in DOMAIN outM :
             /\ outM[i].date_time = <<1980, 1, 1, 0, 0, 0>>
             /\ outM[i].external_attr = 32768 + 504
             /\ Cardinality({j \in DOMAIN outM : same(outM[j], outM[i])}) =
                  Cardinality({j \in DOMAIN inM : same(outM[i], inM[j])})

(***************************************************************************)
(* docker_environment.py: get_environment_version on file names            *)
(***************************************************************************)
\* The interpreter and platform parts a wheel file name is made of here. The
\* name foo-1.0-py37.cp38-none-any.whl has the interpreters py37, cp38 and
\* the platform any; parse_wheel_filename expands them to one tag for every
\* pair.
Interpreters == {"py2", "py3", "py37", "cp38", "cp311"}
Platforms == {"any", "linux_x86_64", "win_amd64"}

MaxTagParts == 2

\* the sequences without repetition of at most n elements of S, not empty
Listings(S, n) ==
  {s \in SeqsUpTo(S, n) : Len(s) > 0 /\ \A i, j \in DOMAIN s : s[i] = s[j] => i = j}

\* a wheel file name with the given interpreters and platforms, in the order
\* of the name
WheelName(interpreters, platforms) ==
  [ext |-> "whl", wellformed |-> TRUE,
   tags |-> {<<interpreters[i], platforms[p]>> :
               i \in DOMAIN interpreters, p \in DOMAIN platforms},
   interpreters |-> interpreters, platforms |-> platforms]

\* the file names get_environment_version is exercised on: a source
\* distribution, a name parse_wheel_filename rejects, and the wheel names
EnvNames ==
  {[ext |-> "tar.gz", wellformed |-> TRUE, tags |-> {},
    interpreters |-> <<>>, platforms |-> <<>>],
   [ext |-> "whl", wellformed |-> FALSE, tags |-> {},
    interpreters |-> <<>>, platforms |-> <<>>]}
    \cup {WheelName(i, p) : i \in Listings(Interpreters, MaxTagParts),
                            p \in Listings(Platforms, MaxTagParts)}

EnvInit ==
  /\ pkgs = Dataset(0)
  /\ RepackIdle
  /\ ag = Off
  /\ nz = Off
  /\ rd = Off
  /\ \E f \in EnvNames :
       ev = [pc |-> "name", fname |-> f, result |-> Unset, again |-> Unset]

\* get_environment_version(fname)
SelectEnvironment ==
  /\ ev.pc = "name"
  /\ \E r \in get_environment_version(ev.fname) :
       ev' = [ev EXCEPT !.pc = "selected", !.result = r]
  /\ UNCHANGED <<repackVars, ag, nz, rd>>

\* get_environment_version(fname) for the same name in another run of the
\* interpreter
SelectEnvironmentAgain ==
  /\ ev.pc = "selected"
  /\ \E r \in get_environment_version(ev.fname) :
       ev' = [ev EXCEPT !.pc = "again", !.again = r]
  /\ UNCHANGED <<repackVars, ag, nz, rd>>

EnvNext ==
  \/ SelectEnvironment
  \/ SelectEnvironmentAgain

SpecEnv == EnvInit /\ [][EnvNext]_vars

\* the tags of a wheel file name in the order of the name: interpreters
\* first, platforms within
WrittenTags(f) ==
  LET np == Len(f.platforms)
  IN  [k \in 1..(Len(f.interpreters) * np) |->
         <<f.interpreters[((k - 1) \div np) + 1], f.platforms[((k - 1) % np) + 1]>>]

\* the environment of the first tag of the name that has a supported
\* platform and a supported interpreter, None if there is none
FirstMatch(f) ==
  LET w == WrittenTags(f)
      hits == {k \in DOMAIN w : TagEnv(w[k]) # None}
  IN  IF hits = {} THEN None
      ELSE TagEnv(w[CHOOSE k \in hits : \A j \in hits : k <= j])

\* the newest of the supported environments
NewestEnv ==
  CHOOSE k \in docker_tags :
    \A j \in docker_tags : j[1] < k[1] \/ (j[1] = k[1] /\ j[2] <= k[2])

(***************************************************************************)
(* C24: environment selection                                              *)
(***************************************************************************)
\* C24: a source distribution name maps to the newest key of docker_tags; a
\* wheel name maps to the environment of the first of its tags with a
\* supported platform and interpreter, None if no tag matches; the same name
\* always gives the same result; the result is None or a key of docker_tags.
C24_EnvironmentSelection ==
  (ev.pc \in {"selected", "again"} /\ ev.fname.wellformed) =>
    /\ ev.fname.ext = "tar.gz" => ev.result = NewestEnv
    /\ ev.fname.ext = "whl" => ev.result = FirstMatch(ev.fname)
    /\ ev.result \in docker_tags \cup {None}
    /\ ev.pc = "again" => ev.again = ev.result

(***************************************************************************)
(* postprocessing.py: extract_reasons_from_tags on sets of tags            *)
(***************************************************************************)
\* the eight tags extract_reasons_from_tags looks for
Taxonomy ==
  {Str(<<NR, "tooling">>),
   Str(<<NR, "metadata", "payload", "normalization">>),
   Str(<<NR, "metadata", "key-value">>),
   Str(<<NR, "metadata">>),
   Str(<<NR, "zip", "timestamp">>),
   Str(<<NR, "zip", "external-attributes">>),
   Str(<<NR, "metadata", "payload", "unknown">>),
   Str(<<NR, "unknown">>)}

\* the tags a set handed to extract_reasons_from_tags is made of: the tags
\* of the taxonomy, what unwind_tag adds to them, and a tag outside the
\* taxonomy
ReasonTags == UNION {unwind_tag(t) : t \in Taxonomy} \cup {Str(<<"misc">>)}

Flags ==
  {"archive_metadata", "packaging_tools", "timestamps", "permissions", "unknown",
   "distribution_metadata", "distribution_description", "distribution_headers"}

ReasonsInit ==
  /\ pkgs = Dataset(0)
  /\ RepackIdle
  /\ ev = Off
  /\ nz = Off
  /\ rd = Off
  /\ \E ts \in SUBSET ReasonTags :
       ag = [pc |-> "tags", tags |-> ts, reasons |-> extract_reasons_from_tags({}),
             part |-> {}, part_reasons |-> extract_reasons_from_tags({})]

\* extract_reasons_from_tags(tags)
ExtractReasons ==
  /\ ag.pc = "tags"
  /\ ag' = [ag EXCEPT !.pc = "classified",
                      !.reasons = extract_reasons_from_tags(ag.tags)]
  /\ UNCHANGED <<repackVars, ev, nz, rd>>

\* extract_reasons_from_tags on a part of the set classified before
ExtractReasonsOfPart ==
  /\ ag.pc = "classified"
  /\ \E p \in SUBSET ag.tags :
       ag' = [ag EXCEPT !.pc = "part", !.part = p,
                        !.part_reasons = extract_reasons_from_tags(p)]
  /\ UNCHANGED <<repackVars, ev, nz, rd>>

ReasonsNext ==
  \/ ExtractReasons
  \/ ExtractReasonsOfPart

SpecReasons == ReasonsInit /\ [][ReasonsNext]_vars

(***************************************************************************)
(* C25: reason flags on closed tag sets                                    *)
(***************************************************************************)
\* C25: for a prefix-closed tag set, any of distribution_metadata,
\* distribution_description, distribution_headers being true implies
\* archive_metadata is true; a flag true for a part of a set is true for the
\* set; the empty set gives all eight flags false.
C25_ReasonFlags ==
  /\ (ag.pc \in {"classified", "part"} /\ PrefixClosed(ag.tags)) =>
       ((\/ ag.reasons.distribution_metadata
         \/ ag.reasons.distribution_description
         \/ ag.reasons.distribution_headers) => ag.reasons.archive_metadata)
  /\ (ag.pc \in {"classified", "part"} /\ ag.tags = {}) =>
       \A f \in Flags : ~ag.reasons[f]
  /\ (ag.pc = "part" /\ ag.part = {}) => \A f \in Flags : ~ag.part_reasons[f]
  /\ (ag.pc = "part") => \A f \in Flags : ag.part_reasons[f] => ag.reasons[f]

\* a closed set with the normalization tag and the timestamp tag is
\* classified, and then its part without the zip tags
C25_Witness ==
  /\ ag.pc = "part"
  /\ ag.tags = unwind_tag(Str(<<NR, "metadata", "payload", "normalization">>))
                  \cup unwind_tag(Str(<<NR, "zip", "timestamp">>))
  /\ PrefixClosed(ag.tags)
  /\ ag.part = unwind_tag(Str(<<NR, "metadata", "payload", "normalization">>))
  /\ ag.reasons.distribution_description /\ ag.reasons.archive_metadata
  /\ ag.reasons.timestamps /\ ~ag.part_reasons.timestamps
  /\ ag.part_reasons.distribution_metadata /\ ag.part_reasons.archive_metadata

(***************************************************************************)
(* C20: scoped temporary directories                                       *)
(***************************************************************************)
\* C20: once repack has returned or raised, on whatever path (True, the
\* "already rebuilt" False, the build-failed and no-output False, an
\* exception of any step), neither the temporary source tree of as_source nor
\* the scratch directory of the normalization exists any more; and a source
\* directory supplied by the caller exists throughout the run and after it.
C20_ScopedTemporaries ==
  /\ (pc = "done") => (TmpSrc \notin tmp /\ TmpNorm \notin tmp)
  /\ (pc \notin {"idle"} /\ InRepack /\ supplied) =>
       (SourceDir \in tmp /\ TmpSrc \notin tmp)

\* a run without a supplied source directory was interrupted by an exception
\* of the second diffoscope call, that is while both temporary directories
\* existed, and has been left
C20_Witness ==
  /\ pc = "done"
  /\ ~supplied
  /\ stopped = "normdiff"
  /\ outcome = "OSError"
  /\ tmp = {}

====
